---- MODULE Spec2Model ----
(***************************************************************************)
(* A model of the Koi water engine (Waves: propagate / render and the two  *)
(* fragment shaders) and of the Card preview lifecycle (initialize, the    *)
(* asynchronous toBlob callback, free).                                    *)
(*                                                                         *)
(* Four specifications share the module:                                   *)
(*   Spec       - the WebGL call sequence of Waves.propagate / render, for *)
(*                any order of propagate(), render() and host rebinds      *)
(*   SpecField  - the arithmetic of the two fragment shaders on a grid     *)
(*   SpecEnergy - the same arithmetic over many steps, for several plane   *)
(*                sizes and dampings, on numbers beyond the machine word   *)
(*   SpecCard   - Card.initialize / toBlob callback / Card.free            *)
(***************************************************************************)
EXTENDS Integers, Sequences, FiniteSets, TLC

VARIABLES
    \* ---- Spec: WaterPlane, the GL context, the position inside propagate()
    front,        \* WaterPlane.front: index of the plane that is "front"
    tex,          \* the two water textures: content tag and min/mag filter
    glProgram,    \* program made current by Shader.use()
    glActive,     \* gl.activeTexture unit
    glBound,      \* texture bound to TEXTURE_2D of each unit
    glTarget,     \* bound render target (a water plane or the screen)
    pc,           \* next statement of the running propagate() call, or "idle"
    n,            \* number of propagate() calls that returned
    painter,      \* influences the WavePainter holds for the running / last call
    call,         \* record of what the running / last propagate() call did
    lastRender,   \* what the last executed render() draw sampled
    glError,      \* the context's error flag (gl.getError is never called)
    \* ---- SpecField: one water texture as a grid of exact rationals
    size,         \* <<water.width, water.height>>, the uniform size
    damping,      \* the uniform damping, <<numerator, denominator>>
    wrap,         \* texture wrap mode of the water textures
    impulse,      \* the perturbed cell and its encoded height (numerator)
    field,        \* Cells -> [r, g, b], numerators over den
    den,          \* common denominator of field
    prevField,    \* the field before the last step (numerators over prevDen)
    prevDen,
    written,      \* value the last step computed before encoding, over den
    steps,        \* propagation steps done
    paints,       \* influences painted into the field so far
    \* ---- SpecEnergy: the water texture in digits, over many steps
    water,        \* Cells -> [r, g, b], each the digits of a numerator
    waterDen,     \* digits of the common denominator of water
    heights,      \* Cells -> digits of the height the shading stage decodes
    energy,       \* total field energy, over the squared denominator
    lastEnergy,   \* energy before the last step, over the same denominator
    energy0,      \* energy of the initial field, over the same denominator
    \* ---- SpecCard: a Card and the browser's object URLs
    initialized,  \* Card.initialized
    previewURL,   \* Card.previewURL (0 models null)
    pending,      \* toBlob callbacks queued and not yet delivered
    created,      \* object URLs created so far are 1..created
    revoked,      \* object URLs revoked so far
    region,       \* body.pattern.region is set
    names,        \* <h2> elements appended by setName
    lastCall,     \* the last of initialize() and free() that was called
    inits         \* initialize() calls made

glVars == <<front, tex, glProgram, glActive, glBound, glTarget, pc, n, call,
            lastRender, glError>>
wavesVars == <<glVars, painter>>
fieldVars == <<size, damping, wrap, impulse, field, den, prevField, prevDen,
               written, steps, paints>>
energyVars == <<water, waterDen, heights, energy, lastEnergy, energy0>>
cardVars  == <<initialized, previewURL, pending, created, revoked, region,
               names, lastCall, inits>>
vars == <<wavesVars, fieldVars, energyVars, cardVars>>

\* each specification moves one component and leaves the others alone
WavesOnly == UNCHANGED <<fieldVars, energyVars, cardVars>>
FieldOnly == UNCHANGED <<glVars, energyVars, cardVars>>
EnergyOnly == UNCHANGED <<glVars, cardVars, field, den, prevField, prevDen,
                          written>>
CardOnly == UNCHANGED <<wavesVars, fieldVars, energyVars>>

----------------------------------------------------------------------------
(* Bounds *)

MaxPropagate == 3      \* propagate() calls per behaviour
MaxInfluence == 2      \* influence ids a WavePainter may hold: 1..MaxInfluence
TimeDen == 2           \* render time factors are 0/TimeDen .. TimeDen/TimeDen

----------------------------------------------------------------------------
(* Spec: Waves.propagate and Waves.render as WebGL call sequences *)

Planes == {0, 1}
Screen == 2            \* the host's framebuffer
Background == 3        \* the background texture handed to render()
NoTexture == 4

NEAREST == "NEAREST"
LINEAR == "LINEAR"

\* gl.NO_ERROR, gl.INVALID_OPERATION
NO_ERROR == "NO_ERROR"
INVALID_OPERATION == "INVALID_OPERATION"

\* uniform1i(uBackground, 0), uniform1i(uWaterBack, 1), uniform1i(uWaterFront, 2)
U_BACKGROUND == 0
U_WATER_BACK == 1
U_WATER_FRONT == 2
\* programPropagate never sets its sampler "source": it keeps GL's default unit
U_SOURCE == 0

\* WaterPlane (not part of the excerpt): two planes and the index of the front
GetFront == front
GetBack == 1 - front
Flipped(f) == 1 - f

InitialContent == [step |-> 0, stage |-> "initial", infl |-> {}]
ClearedContent == [step |-> 0, stage |-> "cleared", infl |-> {}]

NoCall == [frontAtEntry |-> 0, backAtEntry |-> 1, flips |-> 0, binds |-> 0,
           draws |-> 0, influences |-> 0, flipsAtDraw |-> 0,
           source |-> NoTexture, target |-> Screen, written |-> NoTexture,
           influenced |-> NoTexture, frontAtInfluence |-> NoTexture,
           sourceStage |-> "none"]

NoRender == [done |-> FALSE, time |-> 0, target |-> Screen, waterBack |-> InitialContent,
             waterFront |-> InitialContent, shown |-> 0,
             filters |-> {LINEAR}, calls |-> 0]

\* GLSL mix(x, y, a) = x * (1 - a) + y * a, with a = t / TimeDen, times TimeDen
Mix(x, y, t) == x * (TimeDen - t) + y * t

WavesInit ==
    /\ front = 0
    /\ tex = [p \in Planes |-> [content |-> InitialContent,
                                min |-> LINEAR, mag |-> LINEAR]]
    /\ glProgram = "none"
    /\ glActive = 0
    /\ glBound = [u \in 0..2 |-> NoTexture]
    /\ glTarget = Screen
    /\ pc = "idle"
    /\ n = 0
    /\ painter = {}
    /\ call = NoCall
    /\ lastRender = NoRender
    /\ glError = NO_ERROR

\* line 123-124: entry, this.programPropagate.use()
PropagateUse ==
    /\ WavesOnly
    /\ pc = "idle"
    /\ n < MaxPropagate
    /\ \E inf \in SUBSET (1..MaxInfluence) : painter' = inf
    /\ glProgram' = "propagate"
    /\ call' = [NoCall EXCEPT !.frontAtEntry = GetFront, !.backAtEntry = GetBack]
    /\ pc' = "flip"
    /\ UNCHANGED <<front, tex, glActive, glBound, glTarget, n, lastRender,
                   glError>>

\* mutant of PropagateFlip: the roles are swapped twice
PropagateFlipTwice ==
    /\ WavesOnly
    /\ pc = "flip"
    /\ front' = Flipped(Flipped(front))
    /\ call' = [call EXCEPT !.flips = @ + 2]
    /\ pc' = "target"
    /\ UNCHANGED <<tex, glProgram, glActive, glBound, glTarget, n, painter,
                   lastRender, glError>>

\* mutant of PropagateFlip: the flip is left for later and never made
PropagateSkipFlip ==
    /\ WavesOnly
    /\ pc = "flip"
    /\ pc' = "target"
    /\ UNCHANGED <<front, tex, glProgram, glActive, glBound, glTarget, n,
                   painter, call, lastRender, glError>>

\* line 126: water.flip()
PropagateFlip ==
    /\ WavesOnly
    /\ pc = "flip"
    /\ front' = Flipped(front)
    /\ call' = [call EXCEPT !.flips = @ + 1]
    /\ pc' = "target"
    /\ UNCHANGED <<tex, glProgram, glActive, glBound, glTarget, n, painter,
                   lastRender, glError>>

\* line 127: water.getFront().target()
PropagateTarget ==
    /\ WavesOnly
    /\ pc = "target"
    /\ glTarget' = GetFront
    /\ pc' = "clear"
    /\ UNCHANGED <<front, tex, glProgram, glActive, glBound, n, painter, call,
                   lastRender, glError>>

\* line 129-140: clearColor, clear, uniforms, mesh buffers, attribute
PropagateClear ==
    /\ WavesOnly
    /\ pc = "clear"
    /\ tex' = IF glTarget \in Planes
              THEN [tex EXCEPT ![glTarget].content = ClearedContent]
              ELSE tex
    /\ pc' = "bind"
    /\ UNCHANGED <<front, glProgram, glActive, glBound, glTarget, n, painter,
                   call, lastRender, glError>>

\* mutant of PropagateBind: the front texture is bound for sampling
PropagateBindFront ==
    /\ WavesOnly
    /\ pc = "bind"
    /\ glActive' = 0
    /\ glBound' = [glBound EXCEPT ![0] = GetFront]
    /\ call' = [call EXCEPT !.binds = @ + 1]
    /\ pc' = "nearest"
    /\ UNCHANGED <<front, tex, glProgram, glTarget, n, painter, lastRender,
                   glError>>

\* line 142-143: activeTexture(TEXTURE0), bindTexture(water.getBack().texture)
PropagateBind ==
    /\ WavesOnly
    /\ pc = "bind"
    /\ glActive' = 0
    /\ glBound' = [glBound EXCEPT ![0] = GetBack]
    /\ call' = [call EXCEPT !.binds = @ + 1]
    /\ pc' = "nearest"
    /\ UNCHANGED <<front, tex, glProgram, glTarget, n, painter, lastRender,
                   glError>>

\* gl.texParameteri(TEXTURE_2D, MIN_FILTER, f); (TEXTURE_2D, MAG_FILTER, f)
SetFilters(f) ==
    IF glBound[glActive] \in Planes
    THEN [tex EXCEPT ![glBound[glActive]].min = f, ![glBound[glActive]].mag = f]
    ELSE tex

\* line 144-145
PropagateNearest ==
    /\ WavesOnly
    /\ pc = "nearest"
    /\ tex' = SetFilters(NEAREST)
    /\ pc' = "draw"
    /\ UNCHANGED <<front, glProgram, glActive, glBound, glTarget, n, painter,
                   call, lastRender, glError>>

\* WebGL 1.0 section 6.26: a draw whose render target is a texture that one
\* of the units the program samples has bound is not executed; the context
\* raises INVALID_OPERATION and the target keeps its content.
FeedbackLoop(sampled, target) == target \in Planes /\ target \in sampled

\* What the propagation draw leaves in the render target: the step after the
\* one held by the texture it sampled (a water plane: propagate() binds one
\* right before, line 143).
Propagated(source) ==
    [step |-> tex[source].content.step + 1, stage |-> "propagated",
     infl |-> {}]

\* line 147: drawElements with programPropagate, which samples unit 0
PropagateDraw ==
    /\ WavesOnly
    /\ pc = "draw"
    /\ LET source == glBound[U_SOURCE]
           target == glTarget
           rejected == FeedbackLoop({source}, target)
       IN /\ tex' = IF target \in Planes /\ ~rejected
                    THEN [tex EXCEPT ![target].content = Propagated(source)]
                    ELSE tex
          /\ glError' = IF rejected THEN INVALID_OPERATION ELSE glError
          /\ call' = [call EXCEPT !.draws = @ + 1,
                                  !.flipsAtDraw = call.flips,
                                  !.source = source,
                                  !.target = target,
                                  !.written = target,
                                  !.sourceStage =
                                      IF source \in Planes
                                      THEN tex[source].content.stage
                                      ELSE "none"]
    /\ pc' = "linear"
    /\ UNCHANGED <<front, glProgram, glActive, glBound, glTarget, n, painter,
                   lastRender>>

\* mutant of PropagateLinear: the filter is not restored
PropagateKeepNearest ==
    /\ WavesOnly
    /\ pc = "linear"
    /\ pc' = "influences"
    /\ UNCHANGED <<front, tex, glProgram, glActive, glBound, glTarget, n,
                   painter, call, lastRender, glError>>

\* line 149-150
PropagateLinear ==
    /\ WavesOnly
    /\ pc = "linear"
    /\ tex' = SetFilters(LINEAR)
    /\ pc' = "influences"
    /\ UNCHANGED <<front, glProgram, glActive, glBound, glTarget, n, painter,
                   call, lastRender, glError>>

\* WavePainter.applyInfluences(water) (not part of the excerpt): paints the
\* painter's influences into the water plane's front buffer.
ApplyInfluences(t) ==
    [t EXCEPT ![GetFront].content =
        [step |-> @.step, stage |-> "influenced", infl |-> painter]]

\* mutant of PropagateInfluences: propagate() returns without the injection
PropagateNoInfluences ==
    /\ WavesOnly
    /\ pc = "influences"
    /\ n' = n + 1
    /\ pc' = "idle"
    /\ UNCHANGED <<front, tex, glProgram, glActive, glBound, glTarget, painter,
                   call, lastRender, glError>>

\* line 152-153: wavePainter.applyInfluences(water), return
PropagateInfluences ==
    /\ WavesOnly
    /\ pc = "influences"
    /\ tex' = ApplyInfluences(tex)
    /\ glTarget' = GetFront
    /\ call' = [call EXCEPT !.influences = @ + 1,
                            !.influenced = GetFront,
                            !.frontAtInfluence = GetFront]
    /\ n' = n + 1
    /\ pc' = "idle"
    /\ UNCHANGED <<front, glProgram, glActive, glBound, painter, lastRender,
                   glError>>

\* mutant of RenderBindings: the two water textures are bound the other way
RenderBindingsSwapped ==
    [u \in 0..2 |-> CASE u = 0 -> Background
                      [] u = 1 -> GetFront
                      [] u = 2 -> GetBack]

\* line 190-195: the three texture units as render() binds them
RenderBindings ==
    [u \in 0..2 |-> CASE u = 0 -> Background
                      [] u = 1 -> GetBack
                      [] u = 2 -> GetFront]

\* line 165-198: Waves.prototype.render, drawing into whatever render target
\* is bound when it is called. Program, uniforms and the three texture units
\* are set (lines 173-195); the draw of line 197 samples all three units. With
\* the host's framebuffer bound it is executed and writes no water plane;
\* with a water plane bound (propagate() leaves its front plane bound) the
\* plane is also on a sampled unit, and the draw is rejected: nothing is
\* sampled or written and the error flag is raised.
Render ==
    /\ WavesOnly
    /\ pc = "idle"
    /\ glProgram' = "distort"
    /\ glBound' = RenderBindings
    /\ glActive' = 2
    /\ \E t \in 0..TimeDen :
         LET b == RenderBindings
             wb == tex[b[U_WATER_BACK]].content
             wf == tex[b[U_WATER_FRONT]].content
         IN IF FeedbackLoop({b[u] : u \in DOMAIN b}, glTarget)
            THEN /\ glError' = INVALID_OPERATION
                 /\ lastRender' = lastRender
            ELSE /\ glError' = glError
                 /\ lastRender' =
                        [done |-> TRUE, time |-> t, target |-> glTarget,
                         waterBack |-> wb, waterFront |-> wf,
                         shown |-> Mix(wb.step, wf.step, t),
                         filters |-> {tex[p].min : p \in Planes}
                                     \cup {tex[p].mag : p \in Planes},
                         calls |-> n]
    /\ UNCHANGED <<front, tex, glTarget, pc, n, painter, call>>

\* The host (not part of the excerpt) binds its own framebuffer
HostTarget ==
    /\ WavesOnly
    /\ pc = "idle"
    /\ glTarget # Screen
    /\ glTarget' = Screen
    /\ UNCHANGED <<front, tex, glProgram, glActive, glBound, pc, n, painter,
                   call, lastRender, glError>>

\* any sequence of propagate() and render() calls and host rebinds
WavesNext ==
    \/ PropagateUse
    \/ PropagateFlip
    \/ PropagateTarget
    \/ PropagateClear
    \/ PropagateBind
    \/ PropagateNearest
    \/ PropagateDraw
    \/ PropagateLinear
    \/ PropagateInfluences
    \/ Render
    \/ HostTarget

----------------------------------------------------------------------------
(* SpecField: the fragment shaders on a grid of texels, in exact rationals. *)
(* A channel value v is the integer numerator of v over a denominator       *)
(* shared by the whole field (den); every operator takes the denominator    *)
(* of its operands and yields a numerator over the stated denominator.      *)
(* The arithmetic is that of the reals: the rounding of mediump floats and   *)
(* of the texture format is not modelled.                                   *)

GridW == 4             \* water.width in texels
GridH == 4             \* water.height in texels
MaxSteps == 2          \* propagation steps per behaviour of SpecField (its
                       \* claims are about one step; see EnergySteps)
HeightHalf == 2        \* initial heights are k / (2 * HeightHalf)
HeightDen == 2 * HeightHalf

\* ripples: heights 1/32 under and over the neutral 1/2, over RippleDen
RippleDen == 16 * HeightDen
RippleHeights == {RippleDen \div 2 - HeightHalf, RippleDen \div 2 + HeightHalf}

\* Waves.prototype.DAMPING = .995 = DAMPING_NUM / DAMPING_DEN
DAMPING_NUM == 199
DAMPING_DEN == 200

\* line 132: uniform2f(uSize, water.width, water.height); the texels of a
\* water plane of that size
Cells == (0..size[1] - 1) \X (0..size[2] - 1)

\* The mesh handed to propagate() covers every water texel of the plane
MeshCells == Cells

WrapModes == {"CLAMP_TO_EDGE", "REPEAT"}

\* One texture coordinate under the wrap mode, NEAREST filtering
WrapCoord(i, extent) ==
    IF wrap = "REPEAT"
    THEN (i + extent) % extent
    ELSE IF i < 0 THEN 0 ELSE IF i > extent - 1 THEN extent - 1 ELSE i

\* texture2D(source, vec2(uv.x + dx * step.x, uv.y + dy * step.y)).r
SampleR(f, c, dx, dy) ==
    f[<<WrapCoord(c[1] + dx, size[1]), WrapCoord(c[2] + dy, size[2])>>].r

\* gl.clearColor(0.5, 0.5, 0, 0): numerators over d (d is even)
ClearColor(d) == [r |-> d \div 2, g |-> d \div 2, b |-> 0]

\* mutant of Momentum: the stored momentum is not mapped back to [-1, 1]
MomentumUnsigned(state, d) == (state.g + state.b) * 2

\* line 106: (state.g + state.b) * 2.0 - 1.0, over d
Momentum(state, d) == (state.g + state.b) * 2 - d

\* mutant of NewHeight: the neutral offset of the four samples is not removed
NewHeightNoOffset(hLeft, hUp, hRight, hDown, d) ==
    hLeft + hUp + hRight + hDown

\* line 107: (hLeft + hUp + hRight + hDown) - 2.0, over d
NewHeight(hLeft, hUp, hRight, hDown, d) ==
    (hLeft + hUp + hRight + hDown) - 2 * d

\* mutant of Damped: the damping factor is left out (damping = 1)
Undamped(newHeight, momentum) == (newHeight - momentum) * damping[2]

\* line 110: (newHeight - momentum) * damping, over d * damping[2]
Damped(newHeight, momentum) == (newHeight - momentum) * damping[1]

\* line 110: x * 0.5 + 0.5 for x over dx, over 2 * dx
PropagateEncode(x, dx) == x + dx

\* denominator of the texels one step writes, from the one it reads
StepDen(d) == 2 * damping[2] * d

\* the value line 110 encodes, (newHeight - momentum) * damping, at texel c of
\* f over d; over d * damping[2]
PropagateValue(f, c, d) ==
    LET hLeft == SampleR(f, c, -1, 0)
        hRight == SampleR(f, c, 1, 0)
        hUp == SampleR(f, c, 0, -1)
        hDown == SampleR(f, c, 0, 1)
        momentum == Momentum(f[c], d)
        newHeight == NewHeight(hLeft, hUp, hRight, hDown, d)
    IN Damped(newHeight, momentum)

\* line 98-114: main() of SHADER_PROPAGATE_FRAGMENT at texel c, reading f over
\* d; the texel written, over StepDen(d)
PropagateFragment(f, c, d) ==
    [r |-> PropagateEncode(PropagateValue(f, c, d), d * damping[2]),
     g |-> f[c].r * 2 * damping[2],
     b |-> 0]

\* line 129-147: clear the target, then draw the mesh with programPropagate
PropagateField(f, d) ==
    [c \in Cells |-> IF c \in MeshCells
                     THEN PropagateFragment(f, c, d)
                     ELSE ClearColor(StepDen(d))]

\* mutant of DistortDecode: the height is read back on the scale it was written
DistortDecodeUnit(v, d) == v * 2 - d

\* line 48: v * 6.0 - 3.0 for a sampled value v over d; the height over d
DistortDecode(v, d) == v * 6 - 3 * d

\* line 45-49: get(): mix(waterBack.r, waterFront.r, time) * 6.0 - 3.0, for
\* texels over d and time = t / TimeDen; the height over d * TimeDen
DistortGet(backR, frontR, t, d) == DistortDecode(Mix(backR, frontR, t), d * TimeDen)

\* the height the shading stage reads from a texel of the newest field: at
\* time = 1 the mix is the waterFront sample itself
Decode(v, d) == DistortDecode(v, d)

\* the largest number of the non-empty set S of naturals
Largest(S) == CHOOSE m \in S : \A k \in S : k <= m

\* WavePainter (not part of the excerpt) holds influences 1..MaxInfluence.
\* Influence i is a ripple at one texel of the plane: the texel it is at
InfluenceCell(i) == <<(i - 1) % size[1], (i - 1) % size[2]>>

\* and the height it paints there, in the encoding of the stored heights,
\* over RippleDen: odd influences raise the water, even ones lower it
InfluenceHeight(i) ==
    IF i % 2 = 1 THEN RippleDen \div 2 + HeightHalf
    ELSE RippleDen \div 2 - HeightHalf

\* the texels the influences inf are painted into
Painted(inf) == {InfluenceCell(i) : i \in inf}

\* line 152: wavePainter.applyInfluences(water) on the field f over d (a
\* multiple of RippleDen) that the draw has just written: every influence
\* the painter holds is painted into the height channel of its texel, in the
\* order of the influences
PaintInfluences(f, d, inf) ==
    [c \in Cells |->
        IF c \in Painted(inf)
        THEN [f[c] EXCEPT !.r =
                 InfluenceHeight(Largest({i \in inf : InfluenceCell(i) = c}))
                     * (d \div RippleDen)]
        ELSE f[c]]

\* Heights the perturbed texel may start with: every k / HeightDen of [0, 1]
\* but the neutral 1/2
PerturbedHeights == (0..HeightDen) \ {HeightDen \div 2}

NeutralField(d) == [c \in Cells |-> ClearColor(d)]

\* line 132, 134: the uniforms propagate() sets: the plane's size and
\* Waves.prototype.DAMPING
FieldInit ==
    /\ size = <<GridW, GridH>>
    /\ damping = <<DAMPING_NUM, DAMPING_DEN>>
    /\ wrap \in WrapModes
    /\ impulse \in [cell : Cells, height : PerturbedHeights]
    /\ den = HeightDen
    /\ field = [NeutralField(HeightDen) EXCEPT ![impulse.cell].r = impulse.height]
    /\ prevField = field
    /\ prevDen = den
    /\ written = [c \in Cells |-> 0]
    /\ steps = 0
    /\ paints = 0

\* line 123-153: one Waves.propagate(water, wavePainter, mesh) on the field:
\* the propagation draw, then the influences the painter holds
PropagateStep ==
    /\ FieldOnly
    /\ steps < MaxSteps
    /\ \E inf \in SUBSET (1..MaxInfluence) :
          /\ painter' = inf
          /\ field' = PaintInfluences(PropagateField(field, den), StepDen(den),
                                      inf)
          /\ paints' = paints + Cardinality(inf)
    /\ den' = StepDen(den)
    /\ written' = [c \in Cells |-> 2 * PropagateValue(field, c, den)]
    /\ prevField' = field
    /\ prevDen' = den
    /\ steps' = steps + 1
    /\ UNCHANGED <<size, damping, wrap, impulse>>

FieldNext == PropagateStep

----------------------------------------------------------------------------
(* Exact integers beyond the machine word. A number is the sequence of its  *)
(* base-Base digits, least significant first: its value is the sum of       *)
(* digit[i] * Base^(i-1). Every digit is in 0..Base-1 except that the last   *)
(* digit of a negative number is -1; there is no trailing 0 and no          *)
(* trailing <<Base-1, -1>>, so a value has one representation.              *)

Base == 10 * 100

Abs(i) == IF i < 0 THEN -i ELSE i

Limb(a, i) == IF i <= Len(a) THEN a[i] ELSE 0

\* the digits of the value whose positions hold the integers of a, plus carry
RECURSIVE Carried(_, _)
Carried(a, carry) ==
    IF a = <<>>
    THEN IF carry = 0 THEN <<>>
         ELSE IF carry = -1 THEN <<-1>>
         ELSE <<carry % Base>> \o Carried(<<>>, carry \div Base)
    ELSE LET s == Head(a) + carry
         IN <<s % Base>> \o Carried(Tail(a), s \div Base)

RECURSIVE Stripped(_)
Stripped(a) ==
    LET k == Len(a)
    IN IF k >= 1 /\ a[k] = 0
       THEN Stripped(SubSeq(a, 1, k - 1))
       ELSE IF k >= 2 /\ a[k] = -1 /\ a[k - 1] = Base - 1
       THEN Stripped(SubSeq(a, 1, k - 2) \o <<-1>>)
       ELSE a

\* the number whose positions hold the (unbounded) integers of a
Big(a) == Stripped(Carried(a, 0))

BigOfInt(k) == Big(<<k>>)

Longest(a, b) == IF Len(a) < Len(b) THEN Len(b) ELSE Len(a)

BigSub(a, b) == Big([i \in 1..Longest(a, b) |-> Limb(a, i) - Limb(b, i)])

\* a times a machine integer k
BigScale(a, k) == Big([i \in 1..Len(a) |-> a[i] * k])

\* digit position k of the product of a and b before the carries: the sum
\* of a[i] * b[j] over i + j = k + 1, from i on
RECURSIVE Convolved(_, _, _, _)
Convolved(a, b, k, i) ==
    IF i > Len(a) \/ i > k
    THEN 0
    ELSE Limb(b, k + 1 - i) * a[i] + Convolved(a, b, k, i + 1)

\* the digits 1..i of the quotient of rem * Base^i + a[1..i] by the positive
\* machine integer k, for a without a negative digit
RECURSIVE QuotientFrom(_, _, _, _)
QuotientFrom(a, k, i, rem) ==
    IF i = 0
    THEN <<>>
    ELSE LET cur == rem * Base + a[i]
         IN QuotientFrom(a, k, i - 1, cur % k) \o <<cur \div k>>

\* a non-negative number divided by the positive machine integer k
BigQuotient(a, k) == Stripped(QuotientFrom(a, k, Len(a), 0))

BigNegative(a) == a # <<>> /\ a[Len(a)] < 0
BigLess(a, b) == BigNegative(BigSub(a, b))
BigLeq(a, b) == ~BigLess(b, a)

----------------------------------------------------------------------------
(* SpecEnergy: repeated propagate() on one water texture, from a neutral    *)
(* field with one rippled texel, for planes of several sizes and several    *)
(* values of the uniform damping. The texel channels and their common       *)
(* denominator are numbers in digits. Every operator of the propagation     *)
(* and shading shaders above is linear in its operands and the denominator  *)
(* taken together (the mesh covers every texel, so no texel keeps the clear  *)
(* colour), so a step applies the shader to each digit position of the      *)
(* field (a field of machine integers) and then carries.                    *)

EnergySteps == 24      \* propagation steps per behaviour of SpecEnergy

\* the smallest and the largest plane in each direction
EnergySizes == {1, GridW} \X {1, GridH}

\* the perturbed texel starts as a ripple, lowered or raised (the step is
\* linear in the height's offset from neutral)
ImpulseHeights == RippleHeights

\* values of the uniform damping: Waves.prototype.DAMPING and others of (0, 1)
Dampings == {<<DAMPING_NUM, DAMPING_DEN>>, <<1, 2>>, <<9, 10>>}

\* the function f itself, as the table of its values
Table(f) == f @@ <<>>

\* digit position i of every channel of every texel of w
DigitField(w, i) ==
    [c \in Cells |-> [r |-> Limb(w[c].r, i),
                      g |-> Limb(w[c].g, i),
                      b |-> Limb(w[c].b, i)]]

\* number of digit positions of w and d
Positions(w, d) ==
    Largest({Len(d)} \cup {Len(w[c].r) : c \in Cells}
                    \cup {Len(w[c].g) : c \in Cells}
                    \cup {Len(w[c].b) : c \in Cells})

\* line 129-147 on a field in digits over d: PropagateField at every digit
\* position, then the carries
PropagateWater(w, d) ==
    LET k == Positions(w, d)
        out == Table([i \in 1..k |->
                         Table(PropagateField(DigitField(w, i), Limb(d, i)))])
    IN Table([c \in Cells |-> [r |-> Big([i \in 1..k |-> out[i][c].r]),
                               g |-> Big([i \in 1..k |-> out[i][c].g]),
                               b |-> Big([i \in 1..k |-> out[i][c].b])]])

\* line 152 on a field in digits over d: PaintInfluences, with the height of
\* each influence in digits
PaintWater(w, d, inf) ==
    LET unit == BigQuotient(d, RippleDen)
    IN Table([c \in Cells |->
                 IF c \in Painted(inf)
                 THEN [w[c] EXCEPT !.r =
                          BigScale(unit, InfluenceHeight(
                              Largest({i \in inf : InfluenceCell(i) = c})))]
                 ELSE w[c]])

\* the denominator of the texels one step writes, in digits
StepWaterDen(d) == Big([i \in 1..Len(d) |-> StepDen(d[i])])

\* line 48 on a texel value in digits over d: the height the shading stage
\* decodes, over d
WaterHeight(v, d) ==
    Big([i \in 1..Longest(v, d) |-> DistortDecode(Limb(v, i), Limb(d, i))])

\* the height the shading stage decodes from each texel of w, over d
WaterHeights(w, d) == Table([c \in Cells |-> WaterHeight(w[c].r, d)])

\* digit position i of the sum of the squares of the heights hs of the texels
\* numbered k and up (row by row) of a plane width texels wide and of count
\* texels, before the carries
RECURSIVE SquaresDigit(_, _, _, _, _)
SquaresDigit(hs, i, k, width, count) ==
    IF k = count
    THEN 0
    ELSE LET h == hs[<<k % width, k \div width>>]
         IN Convolved(h, h, i, 1) + SquaresDigit(hs, i, k + 1, width, count)

\* Total field energy: the sum over all texels of the squared height the
\* shading stage decodes (hs, over d), over d * d
Energy(hs) ==
    Big([i \in 1..2 * Largest({Len(hs[c]) : c \in Cells}) |->
            SquaresDigit(hs, i, 0, size[1], size[1] * size[2])])

\* a number over d * d, over StepDen(d) * StepDen(d)
Rescaled(e) == BigScale(BigScale(e, 2 * damping[2]), 2 * damping[2])

EnergyInit ==
    /\ size \in EnergySizes
    /\ damping \in Dampings
    /\ wrap \in WrapModes
    /\ impulse \in [cell : Cells, height : ImpulseHeights]
    /\ den = RippleDen
    /\ field = [NeutralField(RippleDen) EXCEPT ![impulse.cell].r = impulse.height]
    /\ prevField = field
    /\ prevDen = den
    /\ written = [c \in Cells |-> 0]
    /\ steps = 0
    /\ paints = 0
    /\ water = [c \in Cells |-> [r |-> BigOfInt(field[c].r),
                                 g |-> BigOfInt(field[c].g),
                                 b |-> BigOfInt(field[c].b)]]
    /\ waterDen = BigOfInt(den)
    /\ heights = WaterHeights(water, waterDen)
    /\ energy = Energy(heights)
    /\ lastEnergy = energy
    /\ energy0 = energy

\* line 123-153: one Waves.propagate(water, wavePainter, mesh) on the field in
\* digits: the propagation draw, then the influences the painter holds. A
\* field is followed for EnergySteps calls while nothing is painted into it;
\* a painter that holds influences is met in the first MaxSteps calls, and
\* the field it painted is followed no further.
PropagateWaterStep ==
    /\ EnergyOnly
    /\ steps < EnergySteps
    /\ paints = 0
    /\ \E inf \in SUBSET (1..MaxInfluence) :
          /\ inf # {} => steps < MaxSteps
          /\ painter' = inf
          /\ water' = PaintWater(PropagateWater(water, waterDen),
                                 StepWaterDen(waterDen), inf)
          /\ paints' = paints + Cardinality(inf)
    /\ waterDen' = StepWaterDen(waterDen)
    /\ heights' = WaterHeights(water', waterDen')
    /\ energy' = Energy(heights')
    /\ lastEnergy' = Rescaled(energy)
    /\ energy0' = Rescaled(energy0)
    /\ steps' = steps + 1
    /\ UNCHANGED <<size, damping, wrap, impulse>>

EnergyNext == PropagateWaterStep

EnergyIdle ==
    /\ water = [c \in Cells |-> [r |-> <<>>, g |-> <<>>, b |-> <<>>]]
    /\ waterDen = <<>>
    /\ heights = [c \in Cells |-> <<>>]
    /\ energy = <<>>
    /\ lastEnergy = <<>>
    /\ energy0 = <<>>

----------------------------------------------------------------------------
(* SpecCard: Card.initialize, the toBlob callback and Card.free *)

MaxInitialize == 3     \* initialize() calls per behaviour
MaxNames == 3          \* setName() is called on a card of fewer <h2> elements

CardInit ==
    /\ initialized = FALSE
    /\ previewURL = 0
    /\ pending = 0
    /\ created = 0
    /\ revoked = {}
    /\ region \in BOOLEAN
    /\ names = 0
    /\ lastCall = "none"
    /\ inits = 0

\* line 106-112: Card.prototype.setName appends an <h2> to the name element
AppendName(h2s) == h2s + 1

\* line 64-100: Card.prototype.initialize; atlas.write gives the pattern a
\* region, which is returned and cleared again when initialize created it
Initialize ==
    /\ CardOnly
    /\ inits < MaxInitialize
    /\ inits' = inits + 1
    /\ lastCall' = "initialize"
    /\ IF initialized
       THEN UNCHANGED <<initialized, pending, region, names>>
       ELSE /\ initialized' = TRUE
            /\ pending' = pending + 1
            /\ region' = IF ~region THEN FALSE ELSE region
            /\ names' = AppendName(names)
    /\ UNCHANGED <<previewURL, created, revoked>>

\* line 106-112: Card.prototype.setName called by the host
SetName ==
    /\ CardOnly
    /\ names < MaxNames
    /\ names' = AppendName(names)
    /\ UNCHANGED <<initialized, previewURL, pending, created, revoked, region,
                   lastCall, inits>>

\* line 85-91: the callback preview.render(...).toBlob delivers later
ToBlobCallback ==
    /\ CardOnly
    /\ pending > 0
    /\ pending' = pending - 1
    /\ IF ~initialized
       THEN UNCHANGED <<previewURL, created>>
       ELSE /\ created' = created + 1
            /\ previewURL' = created + 1
    /\ UNCHANGED <<initialized, revoked, region, names, lastCall, inits>>

\* line 313-318: Card.prototype.free
Free ==
    /\ CardOnly
    /\ revoked' = IF previewURL # 0 THEN revoked \cup {previewURL} ELSE revoked
    /\ initialized' = FALSE
    /\ lastCall' = "free"
    /\ UNCHANGED <<previewURL, pending, created, region, names, inits>>

CardNext ==
    \/ Initialize
    \/ SetName
    \/ ToBlobCallback
    \/ Free

----------------------------------------------------------------------------
(* The specifications *)

WavesIdle ==
    /\ front = 0
    /\ tex = [p \in Planes |-> [content |-> InitialContent,
                                min |-> LINEAR, mag |-> LINEAR]]
    /\ glProgram = "none"
    /\ glActive = 0
    /\ glBound = [u \in 0..2 |-> NoTexture]
    /\ glTarget = Screen
    /\ pc = "idle"
    /\ n = 0
    /\ painter = {}
    /\ call = NoCall
    /\ lastRender = NoRender
    /\ glError = NO_ERROR

FieldIdle ==
    /\ size = <<GridW, GridH>>
    /\ damping = <<DAMPING_NUM, DAMPING_DEN>>
    /\ wrap = "CLAMP_TO_EDGE"
    /\ impulse = [cell |-> <<0, 0>>, height |-> 0]
    /\ den = HeightDen
    /\ field = NeutralField(HeightDen)
    /\ prevField = NeutralField(HeightDen)
    /\ prevDen = HeightDen
    /\ written = [c \in Cells |-> 0]
    /\ steps = 0
    /\ paints = 0

CardIdle ==
    /\ initialized = FALSE
    /\ previewURL = 0
    /\ pending = 0
    /\ created = 0
    /\ revoked = {}
    /\ region = FALSE
    /\ names = 0
    /\ lastCall = "none"
    /\ inits = 0

Init == WavesInit /\ FieldIdle /\ EnergyIdle /\ CardIdle
Next == WavesNext
Spec == Init /\ [][Next]_vars

InitField == WavesIdle /\ FieldInit /\ EnergyIdle /\ CardIdle
NextField == FieldNext
SpecField == InitField /\ [][NextField]_vars

InitEnergy == WavesIdle /\ EnergyInit /\ CardIdle
NextEnergy == EnergyNext
SpecEnergy == InitEnergy /\ [][NextEnergy]_vars

InitCard == WavesIdle /\ FieldIdle /\ EnergyIdle /\ CardInit
NextCard == CardNext
SpecCard == InitCard /\ [][NextCard]_vars

----------------------------------------------------------------------------
(* Claims about Waves.propagate / Waves.render, under Spec *)

Returned == pc = "idle" /\ n >= 1
NotYetInjected == {"cleared", "propagated"}

\* C1: every propagate() call swaps the buffer roles exactly once (the buffer
\* that was front at entry is back at return, and the one that was back is
\* front), whatever render() calls come between, and in every reachable state
\* front and back are two different buffers.
C1_BufferRolesSwap ==
    /\ GetFront # GetBack
    /\ {GetFront, GetBack} = Planes
    /\ Returned => /\ call.flips = 1
                   /\ GetBack = call.frontAtEntry
                   /\ GetFront = call.backAtEntry

C1_Witness ==
    /\ Returned
    /\ n = MaxPropagate
    /\ lastRender.done
    /\ lastRender.calls = 1
    /\ glError = INVALID_OPERATION
    /\ GetBack = call.frontAtEntry

\* C2: at every render() call made after k >= 1 propagate() calls the texture
\* bound as waterFront holds the field of propagation step k with the
\* influences injected in that step and the texture bound as waterBack holds
\* the field of step k - 1, also when the context rejects the draw; a draw
\* that is executed samples these two, time = 0 shows the older of the two,
\* time = 1 the newest, and nothing older than step k - 1 is shown.
C2_RenderSamplesLastTwoSteps ==
    /\ (pc = "idle" /\ glProgram = "distort" /\ n >= 1) =>
          /\ tex[glBound[U_WATER_FRONT]].content =
                 [step |-> n, stage |-> "influenced", infl |-> painter]
          /\ tex[glBound[U_WATER_BACK]].content.step = n - 1
          /\ tex[glBound[U_WATER_BACK]].content.stage =
                 IF n = 1 THEN "initial" ELSE "influenced"
    /\ (lastRender.done /\ lastRender.calls >= 1) =>
          /\ lastRender.waterFront.step = lastRender.calls
          /\ lastRender.waterFront.stage = "influenced"
          /\ lastRender.waterBack.step = lastRender.calls - 1
          /\ lastRender.waterBack.stage =
                 IF lastRender.calls = 1 THEN "initial" ELSE "influenced"
          /\ (pc = "idle" /\ lastRender.calls = n) =>
                 lastRender.waterFront.infl = painter
          /\ lastRender.time = 0 =>
                 lastRender.shown = TimeDen * lastRender.waterBack.step
          /\ lastRender.time = TimeDen =>
                 lastRender.shown = TimeDen * lastRender.waterFront.step
          /\ lastRender.shown >= TimeDen * (lastRender.calls - 1)
          /\ lastRender.shown <= TimeDen * lastRender.calls

C2_Witness ==
    /\ lastRender.done
    /\ lastRender.calls = 2
    /\ lastRender.time = 0
    /\ lastRender.waterFront.infl = {1}
    /\ lastRender.waterBack.infl = {2}
    /\ lastRender.shown = TimeDen

\* C3: in every propagate() call applyInfluences is invoked exactly once,
\* after the propagation draw, while the buffer that draw wrote is the front
\* buffer, and no render() or propagation draw samples a buffer that was
\* propagated and not yet injected.
C3_InfluencesOnceAfterDraw ==
    /\ call.influences <= 1
    /\ Returned => call.influences = 1
    /\ pc = "influences" => /\ call.draws = 1
                            /\ call.influences = 0
                            /\ GetFront = call.written
    /\ call.influences = 1 => /\ call.draws = 1
                              /\ call.influenced = call.written
                              /\ call.frontAtInfluence = call.written
    /\ call.draws >= 1 => call.sourceStage \notin NotYetInjected
    /\ lastRender.done => /\ lastRender.waterFront.stage \notin NotYetInjected
                          /\ lastRender.waterBack.stage \notin NotYetInjected

C3_Witness ==
    /\ Returned
    /\ call.influences = 1
    /\ call.influenced = call.written
    /\ tex[call.written].content.stage = "influenced"
    /\ tex[call.written].content.infl = {1, 2}
    /\ lastRender.done
    /\ lastRender.calls = n

\* C8: at every propagation draw the texture sampled is the current back
\* buffer, the render target is the current front buffer, and they differ:
\* no propagation draw reads the buffer it writes.
C8_DrawReadsBackWritesFront ==
    /\ pc = "draw" => /\ glBound[U_SOURCE] = GetBack
                      /\ glTarget = GetFront
                      /\ glBound[U_SOURCE] # glTarget
    /\ call.draws >= 1 => /\ call.source \in Planes
                          /\ call.target \in Planes
                          /\ call.source # call.target

C8_Witness ==
    /\ pc = "linear"
    /\ n = 1
    /\ call.draws = 1
    /\ call.source = GetBack
    /\ call.target = GetFront
    /\ tex[call.target].content.step = 2

\* C9 as stated: no flip() happens between entry to propagate() and its draw
\* call (flip() only follows the draw).
C9_NoFlipBeforeDraw ==
    (pc # "idle" /\ call.draws = 0) => call.flips = 0

\* C9 amended: flip() is the first thing propagate() does after selecting the
\* program: it is made exactly once, before the buffers are bound and before
\* the draw call, and never after the draw; the back buffer (for reads)
\* and the front buffer (as render target) of the flipped roles are bound
\* before the draw.
C9_FlipOnceBeforeBindAndDraw ==
    /\ pc \in {"target", "clear", "bind", "nearest", "draw", "linear",
               "influences"} => call.flips = 1
    /\ call.binds >= 1 => call.flips = 1
    /\ call.draws >= 1 => /\ call.flipsAtDraw = 1
                          /\ call.flips = call.flipsAtDraw
    /\ pc = "draw" => /\ call.binds = 1
                      /\ glBound[U_SOURCE] = 1 - call.backAtEntry
                      /\ glTarget = 1 - call.frontAtEntry

C9_Witness ==
    /\ pc = "draw"
    /\ call.flips = 1
    /\ call.draws = 0
    /\ n = 2

\* C10: the NEAREST filter brackets exactly the propagation draw: it is set
\* on the sampled water texture right before the draw and set back to LINEAR
\* right after it, so a water texture is NEAREST only around a propagation
\* draw, and after every propagate() return and at every render() draw both
\* water textures are LINEAR.
C10_NearestOnlyAroundDraw ==
    /\ \A p \in Planes :
          (tex[p].min = NEAREST \/ tex[p].mag = NEAREST) =>
              /\ pc \in {"draw", "linear"}
              /\ p = glBound[U_SOURCE]
    /\ pc = "draw" => /\ tex[glBound[U_SOURCE]].min = NEAREST
                      /\ tex[glBound[U_SOURCE]].mag = NEAREST
    /\ pc \in {"influences", "idle"} =>
          \A p \in Planes : tex[p].min = LINEAR /\ tex[p].mag = LINEAR
    /\ lastRender.filters = {LINEAR}

C10_Witness ==
    /\ pc = "linear"
    /\ n = 1
    /\ tex[GetBack].min = NEAREST
    /\ tex[GetBack].mag = NEAREST
    /\ tex[GetFront].min = LINEAR
    /\ lastRender.done

----------------------------------------------------------------------------
(* Claims about the shader arithmetic, under SpecField *)

Neutral(d) == ClearColor(d).r

\* the texels at axis distance 1 of c that lie in the field
AxisNeighbours(c) ==
    {e \in Cells : Abs(e[1] - c[1]) + Abs(e[2] - c[2]) = 1}

\* the texels whose height is the one the last propagation draw wrote: those
\* no influence was painted into afterwards
Unpainted == Cells \ Painted(painter)

\* C4: one propagate() step acts locally: from a neutral field (height and
\* momentum channel 0.5) with one perturbed texel, after one step with damping
\* 0.995 every axis-neighbour of the perturbed texel has a non-neutral height
\* and, when the perturbed texel has its 4 axis-neighbours, every texel that
\* is neither the perturbed one nor one of those 4 still has the neutral
\* height; this holds of every texel the step's influence injection did not
\* paint, so of every texel when the painter holds no influence.
C4_StepIsLocal ==
    steps = 1 =>
        /\ \A c \in AxisNeighbours(impulse.cell) \cap Unpainted :
              field[c].r # Neutral(den)
        /\ Cardinality(AxisNeighbours(impulse.cell)) = 4 =>
              \A c \in Unpainted \ (AxisNeighbours(impulse.cell) \cup {impulse.cell}) :
                  field[c].r = Neutral(den)

C4_Witness ==
    /\ steps = 1
    /\ painter = {}
    /\ impulse.cell = <<2, 2>>
    /\ impulse.height = HeightDen
    /\ \A c \in {<<1, 2>>, <<3, 2>>, <<2, 1>>, <<2, 3>>} : field[c].r # Neutral(den)
    /\ \A c \in {<<0, 0>>, <<3, 0>>, <<0, 3>>, <<3, 3>>} : field[c].r = Neutral(den)

\* C5 as stated: the height the shading stage decodes from a texel the
\* propagation stage wrote is the value the propagation stage encoded into it
\* (decode(encode(h)) = h).
C5_DecodeReturnsEncoded ==
    steps >= 1 => \A c \in Unpainted : Decode(field[c].r, den) = written[c]

\* C5 amended: the propagation stage writes x * 0.5 + 0.5 and the shading
\* stage reads v * 6 - 3, so the height the shading stage decodes is three
\* times the value x the propagation stage encoded, at every texel the
\* propagation stage wrote (all of them when the painter holds no influence).
C5_DecodeIsThreeTimesEncoded ==
    steps >= 1 => \A c \in Unpainted : Decode(field[c].r, den) = 3 * written[c]

C5_Witness ==
    /\ steps = 1
    /\ painter = {}
    /\ \E c \in Cells : written[c] > 0 /\ Decode(field[c].r, den) = 3 * written[c]
    /\ \E c \in Cells : written[c] = 0

----------------------------------------------------------------------------
(* Claim about the field energy over many steps, under SpecEnergy *)

\* C6 as stated: from a neutral field with a single perturbed texel and zero
\* momentum, for damping 0.995 and for any damping in (0, 1), under repeated
\* propagate() steps that paint no influence the total field energy
\* decreases from each step to the next.
C6_EnergyDecreasesEachStep ==
    (steps >= 1 /\ paints = 0) => BigLess(energy, lastEnergy)

\* C6 amended: from a neutral field with a single perturbed texel and zero
\* momentum, for damping 0.995 and for any damping in (0, 1), under repeated
\* propagate() steps that paint no influence the total field energy is not
\* monotone (it can rise from one step to the next) but stays bounded: at
\* every step it is at most the initial energy divided by 1 - damping.
C6_EnergyBounded ==
    paints = 0 =>
        BigLeq(BigScale(energy, damping[2] - damping[1]),
               BigScale(energy0, damping[2]))

\* the energy has risen for 21 steps on a one-texel plane and stands above
\* 89% of the bound
C6_Witness ==
    /\ steps = 21
    /\ paints = 0
    /\ size = <<1, 1>>
    /\ damping = <<DAMPING_NUM, DAMPING_DEN>>
    /\ BigLess(lastEnergy, energy)
    /\ BigLess(BigScale(energy0, 89 * damping[2]),
               BigScale(energy, 100 * (damping[2] - damping[1])))

----------------------------------------------------------------------------
(* The stored values stay in the range [0, 1] of a normalized texture in     *)
(* every behaviour of SpecField and of SpecEnergy, so the model does not      *)
(* depend on whether the water textures clamp what is written to them.      *)

FieldInRange ==
    \A c \in Cells : /\ 0 <= field[c].r /\ field[c].r <= den
                     /\ 0 <= field[c].g /\ field[c].g <= den
                     /\ field[c].b = 0

WaterInRange ==
    \A c \in Cells : /\ ~BigNegative(water[c].r) /\ BigLeq(water[c].r, waterDen)
                     /\ ~BigNegative(water[c].g) /\ BigLeq(water[c].g, waterDen)
                     /\ water[c].b = <<>>

----------------------------------------------------------------------------
(* Claim about the Card, under SpecCard *)

\* C7: once the last call was free() and every pending toBlob callback has
\* been delivered, every object URL created for the card has been revoked.
C7_FreeRevokesEveryURL ==
    (lastCall = "free" /\ pending = 0) => \A u \in 1..created : u \in revoked

====
